---- MODULE Spec2Model ----
(***************************************************************************)
(* Edit-decision logic of the block editor's RichText wrapper              *)
(* (packages/block-editor/src/components/rich-text/index.js).              *)
(*                                                                         *)
(* The component owns no state of its own: on every input event it reads   *)
(* its props (the host's optional callbacks and flags) and the current     *)
(* rich-text value, and calls back into the host.  The model keeps the     *)
(* props, the value and the calls made while handling the last event.      *)
(***************************************************************************)
EXTENDS Integers, Sequences, FiniteSets

VARIABLES
    props,                       \* the props of RichTextWrapper (callbacks as "present?" flags)
    value,                       \* the rich-text value handed to Element / onPaste
    hasActiveFormats,            \* render prop of RichText: formats active at the caret
    isCaretWithinFormattedText,  \* the block-editor store's flag
    event,                       \* the event being handled (last delivered)
    log                          \* the calls the handler made for that event, in order

vars == <<props, value, hasActiveFormats, isCaretWithinFormattedText, event, log>>

(***************************************************************************)
(* Bounds of the model.                                                    *)
(***************************************************************************)
MaxLen == 2          \* longest text of a value
MaxPasted == 2       \* most blocks a clipboard parse returns
MaxStack == 4        \* most formats in a stack that active formats are added to
MaxInputLen == 3     \* longest text the input rule is run on

(***************************************************************************)
(* Key codes (@wordpress/keycodes).                                        *)
(***************************************************************************)
BACKSPACE == 8
ENTER == 13
DELETE == 46

(***************************************************************************)
(* Characters.  A text is a sequence of one-character strings.             *)
(***************************************************************************)
LINE_SEPARATOR == "LS"       \* U+2028, the reserved multiline separator
NEWLINE == "\n"
SPACE == " "

Undefined == "undefined"

(***************************************************************************)
(* Small helpers on sequences.                                             *)
(***************************************************************************)
Min(a, b) == IF a < b THEN a ELSE b
Max(a, b) == IF a > b THEN a ELSE b

\* JavaScript's s.slice( from, to ): 0-based, to exclusive, a negative index
\* counts from the end.
SliceSeq(s, from, to) ==
    LET f == IF from < 0 THEN Max(Len(s) + from, 0) ELSE Min(from, Len(s))
        t == IF to < 0 THEN Max(Len(s) + to, 0) ELSE Min(to, Len(s))
    IN  IF f >= t THEN <<>> ELSE SubSeq(s, f + 1, t)

\* All sequences over S of length 0..n.
SeqsUpTo(S, n) == UNION { [1..k -> S] : k \in 0..n }

(***************************************************************************)
(* The rich-text value (@wordpress/rich-text): text, one format stack per  *)
(* character, and the selection as offsets start <= end into the text.     *)
(***************************************************************************)
Val(t, f, s, e) == [text |-> t, formats |-> f, start |-> s, end |-> e]

NoFormats(n) == [i \in 1..n |-> <<>>]

\* The values with a text of at most n characters over chars, format stacks
\* from stacks, and every selection 0 <= start <= end <= length.
ValuesUpTo(chars, stacks, n) ==
    { Val(t, f, s, e) :
        <<t, f, s, e>> \in
            { q \in SeqsUpTo(chars, n) \X SeqsUpTo(stacks, n) \X (0..n) \X (0..n) :
                /\ Len(q[2]) = Len(q[1])
                /\ q[3] <= q[4]
                /\ q[4] <= Len(q[1]) } }

\* The same with texts of at most MaxLen characters.
ValuesOver(chars, stacks) == ValuesUpTo(chars, stacks, MaxLen)

isEmpty(v) == Len(v.text) = 0

isCollapsed(v) == v.start = v.end

\* The line holding the caret, bounded by separators or the text's edges, is empty.
isEmptyLine(v) ==
    /\ v.start = v.end
    /\ \/ v.start = 0
       \/ v.text[v.start] = LINE_SEPARATOR
    /\ \/ v.end = Len(v.text)
       \/ v.text[v.end + 1] = LINE_SEPARATOR

slice(v, from, to) ==
    Val(SliceSeq(v.text, from, to), SliceSeq(v.formats, from, to),
        Max(v.start - from, 0), Min(Max(v.end - from, 0), Max(to - from, 0)))

\* split( value ) with no separator: cut at the selection, dropping the selected range.
split(v) ==
    << Val(SliceSeq(v.text, 0, v.start), SliceSeq(v.formats, 0, v.start),
           v.start, v.start),
       Val(SliceSeq(v.text, v.end, Len(v.text)), SliceSeq(v.formats, v.end, Len(v.text)),
           0, 0) >>

\* A fragment is a text with its formats and no selection.
Fragment(t, f) == [text |-> t, formats |-> f]

\* create( { text } ): an unformatted fragment.
createFromText(t) == Fragment(t, NoFormats(Len(t)))

\* insert( value, fragment ): the selected range is replaced by the fragment,
\* the caret ends up behind the inserted content.
insert(v, frag) ==
    Val(SliceSeq(v.text, 0, v.start) \o frag.text \o SliceSeq(v.text, v.end, Len(v.text)),
        SliceSeq(v.formats, 0, v.start) \o frag.formats
            \o SliceSeq(v.formats, v.end, Len(v.formats)),
        v.start + Len(frag.text), v.start + Len(frag.text))

\* insert( value, '\n' ): a string is inserted unformatted.
insertText(v, t) == insert(v, createFromText(t))

\* __unstableInsertLineSeparator( value ): one separator at the selection.
insertLineSeparator(v) == insert(v, createFromText(<<LINE_SEPARATOR>>))

\* replace( fragment, /\n+/g, LINE_SEPARATOR ): every run of newlines becomes one
\* separator, which takes the formats of the run's first character.
RECURSIVE replaceNewlines(_)
replaceNewlines(frag) ==
    IF Len(frag.text) = 0 THEN frag
    ELSE LET rest == replaceNewlines(Fragment(Tail(frag.text), Tail(frag.formats)))
         IN  IF Head(frag.text) = NEWLINE
             THEN IF Len(rest.text) > 0 /\ Head(rest.text) = LINE_SEPARATOR
                     /\ Len(frag.text) > 1 /\ frag.text[2] = NEWLINE
                  THEN Fragment(rest.text, <<Head(frag.formats)>> \o Tail(rest.formats))
                  ELSE Fragment(<<LINE_SEPARATOR>> \o rest.text,
                                <<Head(frag.formats)>> \o rest.formats)
             ELSE Fragment(<<Head(frag.text)>> \o rest.text,
                           <<Head(frag.formats)>> \o rest.formats)

(***************************************************************************)
(* Formats.  A format stack is a sequence of format names, outermost       *)
(* first.  Editor-only formats are those registered with an editable-tree  *)
(* hook (annotations); RichText's removeEditorOnlyFormats strips them.     *)
(***************************************************************************)
BOLD == "core/bold"
ANNOTATION == "core/annotation"
EditorOnlyFormats == {ANNOTATION}

RECURSIVE WithoutFormats(_, _)
WithoutFormats(stack, names) ==
    IF stack = <<>> THEN <<>>
    ELSE IF Head(stack) \in names THEN WithoutFormats(Tail(stack), names)
    ELSE <<Head(stack)>> \o WithoutFormats(Tail(stack), names)

removeEditorOnlyFormats(v) ==
    [v EXCEPT !.formats =
        [i \in 1..Len(v.formats) |-> WithoutFormats(v.formats[i], EditorOnlyFormats)]]

\* toHTMLString( { value, multilineTag } ): the serialised content keeps the
\* text and the formats and loses the selection.
toHTMLString(v, multilineTag) ==
    [multilineTag |-> multilineTag, text |-> v.text, formats |-> v.formats]

(***************************************************************************)
(* Props of the component.  A callback prop is modelled by whether the     *)
(* host passed it; multiline is the raw prop (true, a tag name, or unset). *)
(***************************************************************************)
Props(onReplace, onSplit, onSplitAtEnd, onSplitMiddle, onMerge, onRemove, multiline, disableLineBreaks, pastePlainText, embedURLOnPaste) ==
    [ onReplace |-> onReplace, onSplit |-> onSplit, onSplitAtEnd |-> onSplitAtEnd,
      onSplitMiddle |-> onSplitMiddle, onMerge |-> onMerge, onRemove |-> onRemove,
      multiline |-> multiline, disableLineBreaks |-> disableLineBreaks,
      pastePlainText |-> pastePlainText, embedURLOnPaste |-> embedURLOnPaste ]

\* JavaScript truthiness of the multiline prop.
Truthy(multiline) == multiline \notin {Undefined, "false"}

getMultilineTag(multiline) ==
    IF multiline \notin {"true", "p", "li"} THEN Undefined
    ELSE IF multiline = "true" THEN "p" ELSE multiline

(***************************************************************************)
(* Calls made on the host, and the blocks the host's hooks hand back.      *)
(***************************************************************************)
Call(op, args) == [op |-> op, args |-> args]

SplitBlock(html, isOriginal) == [src |-> "onSplit", html |-> html, isOriginal |-> isOriginal]
MiddleBlock == [src |-> "onSplitMiddle"]
PastedBlock(i) == [src |-> "pasted", id |-> i]
TransformedBlock(name, content) == [src |-> "transform", name |-> name, content |-> content]

(***************************************************************************)
(* The block transforms registry (@wordpress/blocks).  An enter transform  *)
(* carries a regular expression of the shape /^c{min,}$/.                  *)
(***************************************************************************)
BlockTransforms ==
    << [type |-> "block", blockName |-> "core/heading"],
       [type |-> "enter", blockName |-> "core/separator",
        regExp |-> [char |-> "a", min |-> 2]],
       [type |-> "enter", blockName |-> "core/code",
        regExp |-> [char |-> "a", min |-> 1]],
       [type |-> "prefix", blockName |-> "core/list", prefix |-> <<"a">>],
       [type |-> "prefix", blockName |-> "core/quote", prefix |-> <<"a">>],
       [type |-> "prefix", blockName |-> "core/heading", prefix |-> <<"a", "a">>] >>

getBlockTransforms(direction) == IF direction = "from" THEN BlockTransforms ELSE <<>>

RegExpTest(re, text) ==
    /\ Len(text) >= re.min
    /\ \A i \in 1..Len(text) : text[i] = re.char

NoTransform == [type |-> "none"]

\* findTransform( transforms, predicate ): the first transform the predicate
\* accepts; the predicate is given as the set of transforms it accepts.
findTransform(transforms, accepted) ==
    LET hits == { i \in 1..Len(transforms) : transforms[i] \in accepted }
    IN  IF hits = {} THEN NoTransform
        ELSE transforms[CHOOSE i \in hits : \A j \in hits : i <= j]

(***************************************************************************)
(* splitValue( record, pastedBlocks ): the calls it makes, in order.       *)
(***************************************************************************)
\* Mutant: the content behind the caret is the original whenever the content
\* before it is empty.
isAfterOriginal_BeforeEmpty(before, after) == isEmpty(before)

isAfterOriginal(before, after) == isEmpty(before) /\ ~isEmpty(after)

\* Mutant: splitValue only needs onReplace.
splitValueReturns_WithoutReplace(p) == ~p.onReplace

\* if ( ! onReplace || ! onSplit ) return;
splitValueReturns(p) == ~p.onReplace \/ ~p.onSplit

\* Mutant: the block before the caret is not counted.
IndexToSelect_BeforeNotCounted(pushBefore, pastedBlocks) ==
    IF Len(pastedBlocks) > 0 THEN Len(pastedBlocks) - 1 ELSE 1

\* indexToSelect: lastPastedBlockIndex starts at -1, grows by one when the block
\* before the caret is pushed and by the number of pasted blocks.
IndexToSelect(pushBefore, pastedBlocks) ==
    LET hasPastedBlocks == Len(pastedBlocks) > 0
        lastPastedBlockIndex ==
            -1 + (IF pushBefore THEN 1 ELSE 0)
               + (IF hasPastedBlocks THEN Len(pastedBlocks) ELSE 0)
    IN  IF hasPastedBlocks THEN lastPastedBlockIndex ELSE 1

\* Mutant: the block for the content before the caret is always pushed.
PushesBefore_Always(hasPastedBlocks, before) == TRUE

\* Is a block for the content before the caret pushed?
PushesBefore(hasPastedBlocks, before) == ~hasPastedBlocks \/ ~isEmpty(before)

\* Mutant: an empty after block is only left out if there is a middle hook.
PushesAfter_PastedIgnored(hasPastedBlocks, onSplitMiddle, after) ==
    ~onSplitMiddle \/ ~isEmpty(after)

\* Is a block for the content after the caret pushed?
PushesAfter(hasPastedBlocks, onSplitMiddle, after) ==
    IF hasPastedBlocks THEN ~isEmpty(after) ELSE ~onSplitMiddle \/ ~isEmpty(after)

\* Mutant: the unit behind the caret is built from the content before it.
splitValue_AfterFromBefore(p, record, pastedBlocks) ==
    IF ~p.onReplace \/ ~p.onSplit THEN <<>>
    ELSE
    LET multilineTag == getMultilineTag(p.multiline)
        before == split(record)[1]
        after == split(record)[2]
        hasPastedBlocks == Len(pastedBlocks) > 0
        afterOriginal == isAfterOriginal(before, after)
        beforeHTML == toHTMLString(before, multilineTag)
        afterHTML == toHTMLString(before, multilineTag)
        pushBefore == PushesBefore(hasPastedBlocks, before)
        pushMiddle == ~hasPastedBlocks /\ p.onSplitMiddle
        pushAfter == PushesAfter(hasPastedBlocks, p.onSplitMiddle, after)
        blocks ==
            (IF pushBefore THEN <<SplitBlock(beforeHTML, ~afterOriginal)>> ELSE <<>>)
            \o (IF hasPastedBlocks THEN pastedBlocks
                ELSE IF pushMiddle THEN <<MiddleBlock>> ELSE <<>>)
            \o (IF pushAfter THEN <<SplitBlock(afterHTML, afterOriginal)>> ELSE <<>>)
        indexToSelect == IndexToSelect(pushBefore, pastedBlocks)
        initialPosition == IF hasPastedBlocks THEN -1 ELSE 0
    IN  (IF pushBefore THEN <<Call("onSplit", <<beforeHTML, ~afterOriginal>>)>> ELSE <<>>)
        \o (IF pushMiddle THEN <<Call("onSplitMiddle", <<>>)>> ELSE <<>>)
        \o (IF pushAfter THEN <<Call("onSplit", <<afterHTML, afterOriginal>>)>> ELSE <<>>)
        \o <<Call("onReplace", <<blocks, indexToSelect, initialPosition>>)>>

splitValue(p, record, pastedBlocks) ==
    IF splitValueReturns(p) THEN <<>>
    ELSE
    LET multilineTag == getMultilineTag(p.multiline)
        before == split(record)[1]
        after == split(record)[2]
        hasPastedBlocks == Len(pastedBlocks) > 0
        afterOriginal == isAfterOriginal(before, after)
        beforeHTML == toHTMLString(before, multilineTag)
        afterHTML == toHTMLString(after, multilineTag)
        pushBefore == PushesBefore(hasPastedBlocks, before)
        pushMiddle == ~hasPastedBlocks /\ p.onSplitMiddle
        pushAfter == PushesAfter(hasPastedBlocks, p.onSplitMiddle, after)
        blocks ==
            (IF pushBefore THEN <<SplitBlock(beforeHTML, ~afterOriginal)>> ELSE <<>>)
            \o (IF hasPastedBlocks THEN pastedBlocks
                ELSE IF pushMiddle THEN <<MiddleBlock>> ELSE <<>>)
            \o (IF pushAfter THEN <<SplitBlock(afterHTML, afterOriginal)>> ELSE <<>>)
        indexToSelect == IndexToSelect(pushBefore, pastedBlocks)
        initialPosition == IF hasPastedBlocks THEN -1 ELSE 0
    IN  (IF pushBefore THEN <<Call("onSplit", <<beforeHTML, ~afterOriginal>>)>> ELSE <<>>)
        \o (IF pushMiddle THEN <<Call("onSplitMiddle", <<>>)>> ELSE <<>>)
        \o (IF pushAfter THEN <<Call("onSplit", <<afterHTML, afterOriginal>>)>> ELSE <<>>)
        \o <<Call("onReplace", <<blocks, indexToSelect, initialPosition>>)>>

(***************************************************************************)
(* Element._onKeyDown( event ): the calls it makes, in order.              *)
(***************************************************************************)
KeyEvent(keyCode, shiftKey, defaultPrevented) ==
    [type |-> "keydown", keyCode |-> keyCode, shiftKey |-> shiftKey,
     defaultPrevented |-> defaultPrevented]

\* The on-enter transform check (made when onReplace is there).
EnterTransformation(_value) ==
    LET transforms == SelectSeq(getBlockTransforms("from"), LAMBDA t : t.type = "enter")
    IN  findTransform(transforms,
                      { transforms[i] : i \in { k \in 1..Len(transforms) :
                            RegExpTest(transforms[k].regExp, _value.text) } })

\* Mutant: the transforms are checked without looking for onReplace.
EnterTransformCalls_Unguarded(p, _value) ==
    IF EnterTransformation(_value) # NoTransform
    THEN << Call("onReplace",
                 << <<TransformedBlock(EnterTransformation(_value).blockName,
                                       _value.text)>> >>),
            Call("__unstableMarkAutomaticChange", <<>>) >>
    ELSE <<>>

EnterTransformCalls(p, _value) ==
    IF p.onReplace /\ EnterTransformation(_value) # NoTransform
    THEN << Call("onReplace",
                 << <<TransformedBlock(EnterTransformation(_value).blockName,
                                       _value.text)>> >>),
            Call("__unstableMarkAutomaticChange", <<>>) >>
    ELSE <<>>

\* Mutant: the caret's position is not looked at.
canSplitAtEnd_AnyCaret(p, _value) == p.onSplitAtEnd

canSplitAtEnd(p, _value) ==
    p.onSplitAtEnd /\ _value.start = _value.end /\ _value.end = Len(_value.text)

\* Mutant: in multiline mode any line is split, empty or not.
EnterBranchCalls_SplitAnyLine(p, _value, shiftKey) ==
    LET canSplit == p.onReplace /\ p.onSplit
        lineBreak == IF ~p.disableLineBreaks
                     THEN <<Call("onChange", <<insertText(_value, <<NEWLINE>>)>>)>>
                     ELSE <<>>
    IN  IF Truthy(p.multiline)
        THEN IF shiftKey THEN lineBreak
             ELSE IF canSplit THEN splitValue(p, _value, <<>>)
             ELSE <<Call("onChange", <<insertLineSeparator(_value)>>)>>
        ELSE IF shiftKey \/ (~canSplit /\ ~canSplitAtEnd(p, _value)) THEN lineBreak
             ELSE IF ~canSplit /\ canSplitAtEnd(p, _value)
                  THEN <<Call("onSplitAtEnd", <<>>)>>
             ELSE IF canSplit THEN splitValue(p, _value, <<>>)
             ELSE <<>>

\* Mutant: outside multiline mode the Shift key is not looked at.
EnterBranchCalls_ShiftIgnored(p, _value, shiftKey) ==
    LET canSplit == p.onReplace /\ p.onSplit
        lineBreak == IF ~p.disableLineBreaks
                     THEN <<Call("onChange", <<insertText(_value, <<NEWLINE>>)>>)>>
                     ELSE <<>>
    IN  IF Truthy(p.multiline)
        THEN IF shiftKey THEN lineBreak
             ELSE IF canSplit /\ isEmptyLine(_value) THEN splitValue(p, _value, <<>>)
             ELSE <<Call("onChange", <<insertLineSeparator(_value)>>)>>
        ELSE IF ~canSplit /\ ~canSplitAtEnd(p, _value) THEN lineBreak
             ELSE IF ~canSplit /\ canSplitAtEnd(p, _value)
                  THEN <<Call("onSplitAtEnd", <<>>)>>
             ELSE IF canSplit THEN splitValue(p, _value, <<>>)
             ELSE <<>>

\* The multiline / single-line branches of the Enter key.
EnterBranchCalls(p, _value, shiftKey) ==
    LET canSplit == p.onReplace /\ p.onSplit
        lineBreak == IF ~p.disableLineBreaks
                     THEN <<Call("onChange", <<insertText(_value, <<NEWLINE>>)>>)>>
                     ELSE <<>>
    IN  IF Truthy(p.multiline)
        THEN IF shiftKey THEN lineBreak
             ELSE IF canSplit /\ isEmptyLine(_value) THEN splitValue(p, _value, <<>>)
             ELSE <<Call("onChange", <<insertLineSeparator(_value)>>)>>
        ELSE IF shiftKey \/ (~canSplit /\ ~canSplitAtEnd(p, _value)) THEN lineBreak
             ELSE IF ~canSplit /\ canSplitAtEnd(p, _value)
                  THEN <<Call("onSplitAtEnd", <<>>)>>
             ELSE IF canSplit THEN splitValue(p, _value, <<>>)
             ELSE <<>>

\* Mutant: the active formats are not looked at.
AtDeleteBoundary_IgnoringFormats(v, activeFormats, isReverse) ==
    ~ ( \/ ~isCollapsed(v)
        \/ (isReverse /\ v.start # 0)
        \/ (~isReverse /\ v.end # Len(v.text)) )

\* The boundary condition of Backspace / Delete.
AtDeleteBoundary(v, activeFormats, isReverse) ==
    ~ ( \/ ~isCollapsed(v)
        \/ activeFormats
        \/ (isReverse /\ v.start # 0)
        \/ (~isReverse /\ v.end # Len(v.text)) )

\* Mutant: the merge direction is not inverted.
DeleteCalls_MergeSameDirection(p, v, activeFormats, keyCode) ==
    LET isReverse == keyCode = BACKSPACE
    IN  IF ~AtDeleteBoundary(v, activeFormats, isReverse) THEN <<>>
        ELSE (IF p.onMerge THEN <<Call("onMerge", <<isReverse>>)>> ELSE <<>>)
             \o (IF p.onRemove /\ isEmpty(v) /\ isReverse
                 THEN <<Call("onRemove", <<~isReverse>>)>> ELSE <<>>)
             \o <<Call("preventDefault", <<>>)>>

\* Mutant: remove is not limited to Backspace.
DeleteCalls_RemoveOnDelete(p, v, activeFormats, keyCode) ==
    LET isReverse == keyCode = BACKSPACE
    IN  IF ~AtDeleteBoundary(v, activeFormats, isReverse) THEN <<>>
        ELSE (IF p.onMerge THEN <<Call("onMerge", <<~isReverse>>)>> ELSE <<>>)
             \o (IF p.onRemove /\ isEmpty(v)
                 THEN <<Call("onRemove", <<~isReverse>>)>> ELSE <<>>)
             \o <<Call("preventDefault", <<>>)>>

DeleteCalls(p, v, activeFormats, keyCode) ==
    LET isReverse == keyCode = BACKSPACE
    IN  IF ~AtDeleteBoundary(v, activeFormats, isReverse) THEN <<>>
        ELSE (IF p.onMerge THEN <<Call("onMerge", <<~isReverse>>)>> ELSE <<>>)
             \o (IF p.onRemove /\ isEmpty(v) /\ isReverse
                 THEN <<Call("onRemove", <<~isReverse>>)>> ELSE <<>>)
             \o <<Call("preventDefault", <<>>)>>

_onKeyDown(p, v, activeFormats, e) ==
    IF e.defaultPrevented THEN <<>>
    ELSE IF e.keyCode = ENTER
         THEN LET _value == removeEditorOnlyFormats(v)
              IN  <<Call("preventDefault", <<>>)>>
                  \o EnterTransformCalls(p, _value)
                  \o EnterBranchCalls(p, _value, e.shiftKey)
    ELSE IF e.keyCode = DELETE \/ e.keyCode = BACKSPACE
         THEN DeleteCalls(p, v, activeFormats, e.keyCode)
    ELSE <<>>

(***************************************************************************)
(* onPaste( payload ): the calls it makes, in order.                       *)
(***************************************************************************)
\* Mutant: the active formats go behind the stack of every position.
addActiveFormats_Appended(frag, activeFormats) ==
    IF Len(activeFormats) > 0
    THEN [frag EXCEPT !.formats =
            [i \in 1..Len(frag.formats) |-> frag.formats[i] \o activeFormats]]
    ELSE frag

\* Prepend the active formats to the stack of every position.
addActiveFormats(frag, activeFormats) ==
    IF Len(activeFormats) > 0
    THEN [frag EXCEPT !.formats =
            [i \in 1..Len(frag.formats) |-> activeFormats \o frag.formats[i]]]
    ELSE frag

\* No HTML on the clipboard (the empty string).
NoHTML == Fragment(<<>>, <<>>)

\* create( { html } ): the parsed markup as a fragment.
createFromHTML(html) == Fragment(html.text, html.formats)

IsWhiteSpace(c) == c \in {SPACE, NEWLINE, LINE_SEPARATOR}

RECURSIVE TrimStart(_)
TrimStart(t) ==
    IF Len(t) > 0 /\ IsWhiteSpace(Head(t)) THEN TrimStart(Tail(t)) ELSE t

RECURSIVE TrimEnd(_)
TrimEnd(t) ==
    IF Len(t) > 0 /\ IsWhiteSpace(t[Len(t)]) THEN TrimEnd(SubSeq(t, 1, Len(t) - 1)) ELSE t

Trim(t) == TrimEnd(TrimStart(t))

\* regexp( '.*' ).test( text ): an opening bracket and a closing one behind it
\* (the attribute part of the pattern is a negated character class, so it runs
\* over line ends as well).
isShortcode(text) ==
    \E i, j \in 1..Len(text) :
        /\ i < j
        /\ text[i] = "["
        /\ text[j] = "]"

\* isURL( text ): the text parses as an absolute URL, that is, it starts with
\* a scheme (letters) and a colon.
IsLetter(c) == c \in {"a", "h"}

isURL(text) ==
    \E k \in 1..Len(text) :
        /\ k > 1
        /\ text[k] = ":"
        /\ \A i \in 1..(k - 1) : IsLetter(text[i])

PasteEvent(html, plainText, files, isInternal, activeFormats, content) ==
    [type |-> "paste", html |-> html, plainText |-> plainText, files |-> files,
     isInternal |-> isInternal, activeFormats |-> activeFormats, content |-> content]

\* The clipboard parser was not asked.
NoContent == [kind |-> "none"]
\* Inline markup returned by the clipboard parser.
InlineContent(frag) == [kind |-> "string", html |-> frag]
\* Blocks returned by the clipboard parser.
BlockContent(n) == [kind |-> "blocks", blocks |-> [i \in 1..n |-> PastedBlock(i)]]

\* Only process files if no HTML is present.
IsFilePaste(e) == e.files > 0 /\ e.html = NoHTML

\* Mutant: the plain-text-only mode is looked at before the internal flag.
PasteKind_PlainTextFirst(p, e) ==
    IF p.pastePlainText THEN "plainText"
    ELSE IF e.isInternal THEN "internal"
    ELSE IF IsFilePaste(e) THEN "files"
    ELSE "general"

\* The branch of onPaste a payload takes: the first that applies.
PasteKind(p, e) ==
    IF e.isInternal THEN "internal"
    ELSE IF p.pastePlainText THEN "plainText"
    ELSE IF IsFilePaste(e) THEN "files"
    ELSE "general"

\* Mutant: a shortcode on an empty value forces BLOCKS whatever the mode.
PasteMode_ShortcodeAnyMode(p, v, e) ==
    IF (isEmpty(v) /\ isShortcode(e.plainText))
       \/ (p.embedURLOnPaste /\ isEmpty(v) /\ isURL(Trim(e.plainText)))
    THEN "BLOCKS"
    ELSE IF p.onReplace /\ p.onSplit THEN "AUTO" ELSE "INLINE"

PasteMode(p, v, e) ==
    LET auto == IF p.onReplace /\ p.onSplit THEN "AUTO" ELSE "INLINE"
        shortcode == IF auto = "AUTO" /\ isEmpty(v) /\ isShortcode(e.plainText)
                     THEN "BLOCKS" ELSE auto
    IN  IF p.embedURLOnPaste /\ isEmpty(v) /\ isURL(Trim(e.plainText))
        THEN "BLOCKS" ELSE shortcode

\* What the clipboard parser may return in a mode.
PasteHandlerResults(mode, inline, blocks) ==
    IF mode = "INLINE" THEN inline
    ELSE IF mode = "BLOCKS" THEN blocks
    ELSE inline \cup blocks

\* Mutant: the pasted blocks replace the block whatever its value holds.
ReplacesDirectly_AnyValue(p, v) == p.onReplace

\* onReplace && isEmpty( value ): the pasted blocks replace the block.
ReplacesDirectly(p, v) == p.onReplace /\ isEmpty(v)

\* Mutant: the newlines of the pasted markup are kept.
valueToInsert_NewlinesKept(html, activeFormats, multilineTag) ==
    addActiveFormats(createFromHTML(html), activeFormats)

\* The fragment inserted for inline markup from the parser: created from the
\* markup, given the active formats, its newlines turned into separators if
\* there is a multiline tag.
valueToInsert(html, activeFormats, multilineTag) ==
    LET created == addActiveFormats(createFromHTML(html), activeFormats)
    IN  IF multilineTag # Undefined THEN replaceNewlines(created) ELSE created

onPaste(p, v, e) ==
    LET multilineTag == getMultilineTag(p.multiline)
        kind == PasteKind(p, e)
    IN  IF kind = "internal"
        THEN <<Call("onChange",
                    <<insert(v, addActiveFormats(createFromHTML(e.html), e.activeFormats))>>)>>
        ELSE IF kind = "plainText"
        THEN <<Call("onChange", <<insert(v, createFromText(e.plainText))>>)>>
        ELSE IF kind = "files"
        THEN <<Call("pasteHandler", <<"files", "BLOCKS">>)>>
             \o (IF ReplacesDirectly(p, v)
                 THEN <<Call("onReplace", <<e.content.blocks>>)>>
                 ELSE splitValue(p, v, e.content.blocks))
        ELSE <<Call("pasteHandler", <<"html", PasteMode(p, v, e)>>)>>
             \o (IF e.content.kind = "string"
                 THEN <<Call("onChange",
                             <<insert(v, valueToInsert(e.content.html, e.activeFormats,
                                                       multilineTag))>>)>>
                 ELSE IF Len(e.content.blocks) > 0
                 THEN IF ReplacesDirectly(p, v)
                      THEN <<Call("onReplace",
                                  <<e.content.blocks, Len(e.content.blocks) - 1, -1>>)>>
                      ELSE splitValue(p, v, e.content.blocks)
                 ELSE <<>>)

(***************************************************************************)
(* inputRule( value, valueToFormat ): the calls it makes, in order.        *)
(***************************************************************************)
\* valueToFormat( value ), handed in by the editable: the serialised content.
valueToFormat(v, multilineTag) == toHTMLString(v, multilineTag)

PrefixTransformation(trimmedTextBefore) ==
    LET prefixTransforms ==
            SelectSeq(getBlockTransforms("from"), LAMBDA t : t.type = "prefix")
    IN  findTransform(prefixTransforms,
            { prefixTransforms[i] : i \in { j \in 1..Len(prefixTransforms) :
                trimmedTextBefore = prefixTransforms[j].prefix } })

\* Mutant: any white space before the caret will do.
inputRule_AnyWhiteSpace(p, v) ==
    LET start == v.start
        text == v.text
        characterBefore == SliceSeq(text, start - 1, start)
        trimmedTextBefore == Trim(SliceSeq(text, 0, start))
        transformation == PrefixTransformation(trimmedTextBefore)
        content == valueToFormat(slice(v, start, Len(text)), getMultilineTag(p.multiline))
    IN  IF ~p.onReplace THEN <<>>
        ELSE IF Len(characterBefore) = 0 \/ ~IsWhiteSpace(characterBefore[1]) THEN <<>>
        ELSE IF transformation = NoTransform THEN <<>>
        ELSE << Call("onReplace", << <<TransformedBlock(transformation.blockName, content)>> >>),
                Call("__unstableMarkAutomaticChange", <<>>) >>

inputRule(p, v) ==
    LET start == v.start
        text == v.text
        characterBefore == SliceSeq(text, start - 1, start)
        trimmedTextBefore == Trim(SliceSeq(text, 0, start))
        transformation == PrefixTransformation(trimmedTextBefore)
        content == valueToFormat(slice(v, start, Len(text)), getMultilineTag(p.multiline))
    IN  IF ~p.onReplace THEN <<>>
        ELSE IF characterBefore # <<SPACE>> THEN <<>>
        ELSE IF transformation = NoTransform THEN <<>>
        ELSE << Call("onReplace", << <<TransformedBlock(transformation.blockName, content)>> >>),
                Call("__unstableMarkAutomaticChange", <<>>) >>

(***************************************************************************)
(* The state machine.  The host mounts the component with some props and   *)
(* a value; each event delivered to it is handled to completion.           *)
(***************************************************************************)
NoEvent == [type |-> "none"]

\* The component mounted with props from P, a value from V and the
\* active-formats flag from H; nothing handled yet.
InitOver(P, V, H) ==
    /\ props \in P
    /\ value \in V
    /\ hasActiveFormats \in H
    /\ isCaretWithinFormattedText = FALSE
    /\ event = NoEvent
    /\ log = <<>>

KeyEvents ==
    { KeyEvent(k, s, d) : k \in {ENTER, BACKSPACE, DELETE, 65}, s \in BOOLEAN, d \in BOOLEAN }

\* A keydown event reaches the element (after the autocomplete's handler).
KeyDown(e) ==
    /\ event' = e
    /\ log' = _onKeyDown(props, value, hasActiveFormats, e)
    /\ UNCHANGED <<props, value, hasActiveFormats, isCaretWithinFormattedText>>

\* Mutant: the effect dispatches without looking at the store's flag.
ActiveFormatsEffect_Unchecked(activeFormats, within) ==
    IF activeFormats THEN <<Call("enterFormattedText", <<>>)>>
    ELSE <<Call("exitFormattedText", <<>>)>>

\* The effect on hasActiveFormats: the actions it dispatches, given what
\* isCaretWithinFormattedText() answers.
ActiveFormatsEffect(activeFormats, within) ==
    IF activeFormats
    THEN IF ~within THEN <<Call("enterFormattedText", <<>>)>> ELSE <<>>
    ELSE IF within THEN <<Call("exitFormattedText", <<>>)>> ELSE <<>>

\* The store's flag after the actions dispatched: entering sets it, exiting
\* clears it.
RECURSIVE FlagAfter(_, _)
FlagAfter(within, dispatched) ==
    IF dispatched = <<>> THEN within
    ELSE FlagAfter(Head(dispatched).op = "enterFormattedText", Tail(dispatched))

\* The effect has run; within is what the store's flag was when it started.
EffectEvent(within) == [type |-> "effect", within |-> within]

RunEffect(activeFormats) ==
    /\ log' = ActiveFormatsEffect(activeFormats, isCaretWithinFormattedText)
    /\ isCaretWithinFormattedText' =
            FlagAfter(isCaretWithinFormattedText,
                      ActiveFormatsEffect(activeFormats, isCaretWithinFormattedText))
    /\ event' = EffectEvent(isCaretWithinFormattedText)

\* The element is mounted: the effect runs for the first time.
Mount ==
    /\ event = NoEvent
    /\ RunEffect(hasActiveFormats)
    /\ UNCHANGED <<props, value, hasActiveFormats>>

\* The element was rendered (or the store changed under it); effectPending
\* tells whether the effect is still to run for the last render.
RenderEvent(effectPending) == [type |-> "render", effectPending |-> effectPending]
StoreEvent(effectPending) == [type |-> "store", effectPending |-> effectPending]

\* The effect is scheduled for the last render and has not run yet.
EffectPending == event.type \in {"render", "store"} /\ event.effectPending

\* The mounted element is rendered again with hasActiveFormats = h and
\* returns; the effect is scheduled if that is a change (pending effects are
\* flushed before the next render).
Rerender(h) ==
    /\ event # NoEvent
    /\ ~EffectPending
    /\ hasActiveFormats' = h
    /\ event' = RenderEvent(h # hasActiveFormats)
    /\ log' = <<>>
    /\ UNCHANGED <<props, value, isCaretWithinFormattedText>>

\* The effect scheduled by the last render runs.
Effect ==
    /\ EffectPending
    /\ RunEffect(hasActiveFormats)
    /\ UNCHANGED <<props, value, hasActiveFormats>>

\* Another rich text of the editor enters or exits formatted text: the
\* store's flag changes under the element, also between a render and its
\* effect.
StoreChanges(within) ==
    /\ isCaretWithinFormattedText' = within
    /\ isCaretWithinFormattedText # within
    /\ event # NoEvent
    /\ event' = StoreEvent(EffectPending)
    /\ log' = <<>>
    /\ UNCHANGED <<props, value, hasActiveFormats>>

\* The event as the autocomplete's handler leaves it: that handler may call
\* preventDefault.
AfterAutocomplete(e, prevents) ==
    [e EXCEPT !.defaultPrevented = e.defaultPrevented \/ prevents]

\* Mutant: _onKeyDown runs before the autocomplete's handler.
ElementOnKeyDown_HandlerFirst(p, v, activeFormats, e, prevents) ==
    _onKeyDown(p, v, activeFormats, e) \o <<Call("onKeyDown", <<e>>)>>

\* onKeyDown={ ( event ) => { onKeyDown( event ); _onKeyDown( event ); } }
ElementOnKeyDown(p, v, activeFormats, e, prevents) ==
    <<Call("onKeyDown", <<e>>)>>
        \o _onKeyDown(p, v, activeFormats, AfterAutocomplete(e, prevents))

\* A keydown event reaches the element: the autocomplete's handler gets it
\* first (and prevents its default or not), then _onKeyDown.
ElementKeyDown(e, prevents) ==
    /\ event' = AfterAutocomplete(e, prevents)
    /\ log' = ElementOnKeyDown(props, value, hasActiveFormats, e, prevents)
    /\ UNCHANGED <<props, value, hasActiveFormats, isCaretWithinFormattedText>>

\* What the clipboard holds (htmls, texts, fileCounts, internals, formats) and
\* what the clipboard parser answers (inline markup or 0..MaxPasted blocks)
\* when the paste gets as far as the parser.
PasteEventsFor(p, v, htmls, texts, fileCounts, internals, formats, inlines) ==
    LET blockResults == { BlockContent(n) : n \in 0..MaxPasted }
        inlineResults == { InlineContent(f) : f \in inlines }
        Shell(h, t, f, i, a) == PasteEvent(h, t, f, i, a, NoContent)
        Results(e) ==
            IF PasteKind(p, e) \in {"internal", "plainText"} THEN {NoContent}
            ELSE IF PasteKind(p, e) = "files"
                 THEN PasteHandlerResults("BLOCKS", inlineResults, blockResults)
            ELSE PasteHandlerResults(PasteMode(p, v, e), inlineResults, blockResults)
    IN  UNION { { [Shell(h, t, f, i, a) EXCEPT !.content = c] :
                    c \in Results(Shell(h, t, f, i, a)) } :
                h \in htmls, t \in texts, f \in fileCounts, i \in internals, a \in formats }

\* addActiveFormats( value, activeFormats ) is applied to the value at hand,
\* as long as no stack grows beyond MaxStack.
AddActiveFormats(activeFormats) ==
    /\ \A i \in 1..Len(value.formats) :
            Len(value.formats[i]) + Len(activeFormats) <= MaxStack
    /\ value' = addActiveFormats(value, activeFormats)
    /\ event' = [type |-> "addActiveFormats", activeFormats |-> activeFormats,
                 value |-> value]
    /\ log' = <<>>
    /\ UNCHANGED <<props, hasActiveFormats, isCaretWithinFormattedText>>

\* The editable reports an input and runs the input rule on the value.
InputEvent == [type |-> "input"]

Input ==
    /\ event' = InputEvent
    /\ log' = inputRule(props, value)
    /\ UNCHANGED <<props, value, hasActiveFormats, isCaretWithinFormattedText>>

\* A paste event reaches the component.
Paste(e) ==
    /\ event' = e
    /\ log' = onPaste(props, value, e)
    /\ UNCHANGED <<props, value, hasActiveFormats, isCaretWithinFormattedText>>

(***************************************************************************)
(* Enter key: every combination of the callbacks and flags the Enter       *)
(* branch reads (it reads neither onMerge, onRemove nor hasActiveFormats), *)
(* over texts of plain characters and separators, with and without         *)
(* editor-only formats.                                                    *)
(***************************************************************************)
KeyChars == {"a", LINE_SEPARATOR}
KeyStacks == {<<>>, <<ANNOTATION>>}
KeyValues == ValuesOver(KeyChars, KeyStacks)

EnterProps ==
    { Props(r, s, ae, m, FALSE, FALSE, ml, d, FALSE, FALSE) :
        r \in BOOLEAN, s \in BOOLEAN, ae \in BOOLEAN, m \in BOOLEAN,
        ml \in {Undefined, "true"}, d \in BOOLEAN }

InitEnter == InitOver(EnterProps, KeyValues, {FALSE})

NextKey == \E e \in KeyEvents : KeyDown(e)

SpecEnter == InitEnter /\ [][NextKey]_vars

(***************************************************************************)
(* Backspace / Delete: every combination of what that branch reads         *)
(* (onMerge, onRemove, hasActiveFormats and the value).                    *)
(***************************************************************************)
DeleteProps ==
    { Props(FALSE, FALSE, FALSE, FALSE, mg, rm, Undefined, FALSE, FALSE, FALSE) :
        mg \in BOOLEAN, rm \in BOOLEAN }

InitDelete == InitOver(DeleteProps, KeyValues, BOOLEAN)

SpecDelete == InitDelete /\ [][NextKey]_vars

(***************************************************************************)
(* The element's keydown handler, autocomplete included: every combination *)
(* of the callbacks the key branches look at, with and without active      *)
(* formats, the autocomplete preventing the default or not.                *)
(***************************************************************************)
KeyDownProps ==
    { Props(r, s, FALSE, FALSE, mg, rm, Undefined, FALSE, FALSE, FALSE) :
        r \in BOOLEAN, s \in BOOLEAN, mg \in BOOLEAN, rm \in BOOLEAN }

InitKeyDown == InitOver(KeyDownProps, ValuesOver(KeyChars, {<<>>}), BOOLEAN)

NextKeyDown == \E e \in KeyEvents, prevents \in BOOLEAN : ElementKeyDown(e, prevents)

SpecKeyDown == InitKeyDown /\ [][NextKeyDown]_vars

(***************************************************************************)
(* The effect on hasActiveFormats: the element is mounted with or without  *)
(* active formats into a store whose flag is set or not, is rendered again *)
(* with hasActiveFormats changed or unchanged, and the effect runs later,  *)
(* while other rich texts change the store's flag, also in between.        *)
(***************************************************************************)
EffectProps == { Props(FALSE, FALSE, FALSE, FALSE, FALSE, FALSE, Undefined, FALSE, FALSE, FALSE) }

InitEffect ==
    /\ props \in EffectProps
    /\ value \in ValuesOver({"a"}, {<<>>, <<BOLD>>})
    /\ hasActiveFormats \in BOOLEAN
    /\ isCaretWithinFormattedText \in BOOLEAN
    /\ event = NoEvent
    /\ log = <<>>

NextEffect ==
    \/ Mount
    \/ \E h \in BOOLEAN : Rerender(h)
    \/ Effect
    \/ \E within \in BOOLEAN : StoreChanges(within)

SpecEffect == InitEffect /\ [][NextEffect]_vars

(***************************************************************************)
(* Block splitting, reached from the Enter key and from a paste that the   *)
(* clipboard parser turns into blocks: every combination of what           *)
(* splitValue and its two callers' guards read.                            *)
(***************************************************************************)
SplitProps ==
    { Props(r, s, FALSE, m, FALSE, FALSE, ml, FALSE, FALSE, FALSE) :
        r \in BOOLEAN, s \in BOOLEAN, m \in BOOLEAN, ml \in {Undefined, "true"} }

SplitValues == ValuesOver(KeyChars, {<<>>})

SplitPasteEvents(p, v) ==
    PasteEventsFor(p, v, {NoHTML, Fragment(<<"a">>, <<<<>>>>)}, {<<"a">>}, 0..1,
                   {FALSE}, {<<>>}, {Fragment(<<"a">>, <<<<>>>>)})

InitSplit == InitOver(SplitProps, SplitValues, {FALSE})

NextSplit ==
    \/ \E e \in KeyEvents : KeyDown(e)
    \/ \E e \in SplitPasteEvents(props, value) : Paste(e)

SpecSplit == InitSplit /\ [][NextSplit]_vars

(***************************************************************************)
(* Paste: every combination of the callbacks and flags onPaste reads, over *)
(* plain texts, with clipboards holding markup, plain text that is a       *)
(* shortcode, a URL (inside white space) or neither, files, the internal   *)
(* flag and active formats, and a parser answering inline markup (with     *)
(* newlines) or 0..MaxPasted blocks.                                       *)
(***************************************************************************)
ITALIC == "core/italic"

PasteProps ==
    { Props(r, s, FALSE, FALSE, FALSE, FALSE, ml, FALSE, pt, eu) :
        r \in BOOLEAN, s \in BOOLEAN, ml \in {Undefined, "li", "div"},
        pt \in BOOLEAN, eu \in BOOLEAN }

PasteValues == ValuesOver({"a"}, {<<>>})

PasteHTMLs == {NoHTML, Fragment(<<"a">>, <<<<ITALIC>>>>)}

PasteTexts ==
    { <<"a">>, <<"[", "a", "]">>, <<SPACE, "h", ":", "a", NEWLINE>> }

PasteInlines ==
    { Fragment(<<"a", NEWLINE, NEWLINE, "a">>, <<<<>>, <<ITALIC>>, <<>>, <<>>>>),
      Fragment(<<NEWLINE, "a">>, <<<<>>, <<ITALIC>>>>) }

PasteEvents(p, v) ==
    PasteEventsFor(p, v, PasteHTMLs, PasteTexts, 0..1, BOOLEAN, {<<>>, <<BOLD>>},
                   PasteInlines)

InitPaste == InitOver(PasteProps, PasteValues, {FALSE})

NextPaste == \E e \in PasteEvents(props, value) : Paste(e)

SpecPaste == InitPaste /\ [][NextPaste]_vars

(***************************************************************************)
(* Input rule: with and without onReplace, over texts of up to MaxInputLen *)
(* characters (two letters, of which one starts the registered prefixes,   *)
(* spaces and newlines), plain or italic, with every selection: long       *)
(* enough for content behind the caret, white space in front of the        *)
(* prefix, and typed prefixes that no transform has.                       *)
(***************************************************************************)
InputProps ==
    { Props(r, FALSE, FALSE, FALSE, FALSE, FALSE, ml, FALSE, FALSE, FALSE) :
        r \in BOOLEAN, ml \in {Undefined, "li"} }

InputValues == ValuesUpTo({"a", "b", SPACE, NEWLINE}, {<<>>, <<ITALIC>>}, MaxInputLen)

InitInput == InitOver(InputProps, InputValues, {FALSE})

NextInput == Input

SpecInput == InitInput /\ [][NextInput]_vars

(***************************************************************************)
(* addActiveFormats, applied over and over to values with plain and italic *)
(* characters, with no, one or two active formats.                         *)
(***************************************************************************)
FormatsProps == { Props(FALSE, FALSE, FALSE, FALSE, FALSE, FALSE, Undefined, FALSE, FALSE, FALSE) }

FormatsValues == ValuesOver({"a"}, {<<>>, <<ITALIC>>})

ActiveFormatsChoices == {<<>>, <<BOLD>>, <<BOLD, ITALIC>>}

InitFormats == InitOver(FormatsProps, FormatsValues, {FALSE})

NextFormats == \E a \in ActiveFormatsChoices : AddActiveFormats(a)

SpecFormats == InitFormats /\ [][NextFormats]_vars

(***************************************************************************)
(* Reading the log of the last event.                                      *)
(***************************************************************************)
CallsOf(op) == SelectSeq(log, LAMBDA c : c.op = op)
Count(op) == Len(CallsOf(op))

\* Positions of the log holding a call of op.
At(op) == { i \in 1..Len(log) : log[i].op = op }

\* A key event the handler got to decide (not already default-prevented).
KeyHandled(keys) ==
    /\ event.type = "keydown"
    /\ ~event.defaultPrevented
    /\ event.keyCode \in keys

\* The caret is collapsed, no formats are active and the caret is at the
\* boundary of the key: offset 0 for Backspace, end of text for Delete.
BoundaryCondition ==
    /\ value.start = value.end
    /\ ~hasActiveFormats
    /\ event.keyCode = BACKSPACE => value.start = 0
    /\ event.keyCode = DELETE => value.end = Len(value.text)

(***************************************************************************)
(* C1.  On a Backspace or Delete key, unless the selection is collapsed,   *)
(* no formats are active and the caret is at the key's boundary, the       *)
(* handler emits no merge and no remove signal and does not call           *)
(* preventDefault, whatever merge/remove callbacks exist.                  *)
(***************************************************************************)
C1_OffBoundaryIsUntouched ==
    (KeyHandled({BACKSPACE, DELETE}) /\ ~BoundaryCondition)
        => /\ Count("onMerge") = 0
           /\ Count("onRemove") = 0
           /\ Count("preventDefault") = 0

\* Backspace inside a non-empty text with both callbacks there: nothing happens.
C1_Witness ==
    /\ KeyHandled({BACKSPACE})
    /\ props.onMerge /\ props.onRemove
    /\ value.start = value.end /\ value.start > 0 /\ ~hasActiveFormats
    /\ log = <<>>

(***************************************************************************)
(* C2.  When the boundary condition holds and onMerge exists, exactly one  *)
(* merge signal is emitted, backward for Backspace and forward for Delete, *)
(* whether or not the value is empty; without onMerge none is emitted.     *)
(***************************************************************************)
C2_MergeAtBoundary ==
    (KeyHandled({BACKSPACE, DELETE}) /\ BoundaryCondition)
        => IF props.onMerge
           THEN CallsOf("onMerge") = <<Call("onMerge", <<event.keyCode = DELETE>>)>>
           ELSE Count("onMerge") = 0

\* Backspace at offset 0 of a non-empty value: one backward merge, no remove.
C2_Witness ==
    /\ KeyHandled({BACKSPACE})
    /\ props.onMerge /\ props.onRemove
    /\ BoundaryCondition
    /\ Len(value.text) > 0
    /\ CallsOf("onMerge") = <<Call("onMerge", <<FALSE>>)>>
    /\ Count("onRemove") = 0

(***************************************************************************)
(* C3.  A remove signal (backward) is emitted if and only if the boundary  *)
(* condition holds, onRemove exists, the value is empty and the key is     *)
(* Backspace; Delete never removes.  With onMerge as well, the merge       *)
(* signal (backward) comes before the remove signal.                       *)
(***************************************************************************)
C3_RemoveOnlyOnBackspaceOfEmpty ==
    KeyHandled({BACKSPACE, DELETE, ENTER, 65})
        => /\ Count("onRemove") <= 1
           /\ Count("onRemove") = 1
                <=> /\ event.keyCode = BACKSPACE
                    /\ BoundaryCondition
                    /\ props.onRemove
                    /\ Len(value.text) = 0
           /\ \A i \in At("onRemove") : log[i].args = <<FALSE>>
           /\ (Count("onRemove") = 1 /\ props.onMerge)
                => /\ CallsOf("onMerge") = <<Call("onMerge", <<FALSE>>)>>
                   /\ \A i \in At("onMerge") : \A j \in At("onRemove") : i < j

\* Backspace on an empty value with both callbacks: merge, then remove.
C3_Witness ==
    /\ KeyHandled({BACKSPACE})
    /\ props.onMerge /\ props.onRemove
    /\ Len(value.text) = 0
    /\ At("onMerge") = {1}
    /\ At("onRemove") = {2}

(***************************************************************************)
(* Reading the outcome of an Enter key.                                    *)
(***************************************************************************)
\* A full replace made by a transform: onReplace( [ block ] ), one argument.
TransformReplaces == { i \in At("onReplace") : Len(log[i].args) = 1 }

\* The replace that ends a block split: onReplace( blocks, index, position ).
SplitReplaces == { i \in At("onReplace") : Len(log[i].args) = 3 }

\* No block split was made or started.
NoBlockSplit ==
    /\ SplitReplaces = {}
    /\ Count("onSplit") = 0
    /\ Count("onSplitMiddle") = 0

\* The registered enter transforms whose pattern the value's text matches.
MatchingEnterTransforms ==
    { i \in 1..Len(BlockTransforms) :
        /\ BlockTransforms[i].type = "enter"
        /\ RegExpTest(BlockTransforms[i].regExp, value.text) }

FirstOf(S) == CHOOSE i \in S : \A j \in S : i <= j

\* The value without its editor-only formats, with character c put in place of
\* the selection and the caret behind it.
CleanedWith(c) ==
    LET clean == [i \in 1..Len(value.formats) |->
                    SelectSeq(value.formats[i], LAMBDA f : f # ANNOTATION)]
    IN  Val(SubSeq(value.text, 1, value.start) \o <<c>>
                \o SubSeq(value.text, value.end + 1, Len(value.text)),
            SubSeq(clean, 1, value.start) \o << <<>> >>
                \o SubSeq(clean, value.end + 1, Len(value.text)),
            value.start + 1, value.start + 1)

CanSplit == props.onReplace /\ props.onSplit

(***************************************************************************)
(* C4.  On Enter, the on-enter transforms are checked iff onReplace        *)
(* exists, against the text of the cleaned value and ahead of the          *)
(* multiline/split branches: on a match exactly one full replace with the  *)
(* single block built by the first matching transform is emitted, followed *)
(* by exactly one automatic-change mark; with no match or no onReplace     *)
(* the check emits neither.                                                *)
(***************************************************************************)
C4_EnterTransformCheck ==
    KeyHandled({ENTER})
        => IF props.onReplace /\ MatchingEnterTransforms # {}
           THEN /\ Len(log) >= 3
                /\ log[1] = Call("preventDefault", <<>>)
                /\ log[2] = Call("onReplace",
                        << <<TransformedBlock(
                                BlockTransforms[FirstOf(MatchingEnterTransforms)].blockName,
                                value.text)>> >>)
                /\ log[3] = Call("__unstableMarkAutomaticChange", <<>>)
                /\ TransformReplaces = {2}
                /\ At("__unstableMarkAutomaticChange") = {3}
           ELSE /\ TransformReplaces = {}
                /\ At("__unstableMarkAutomaticChange") = {}

\* Enter on "aa", which both enter transforms match: the first one's block replaces.
C4_Witness ==
    /\ KeyHandled({ENTER})
    /\ props.onReplace
    /\ Cardinality(MatchingEnterTransforms) = 2
    /\ \E i \in 1..Len(value.formats) : value.formats[i] # <<>>
    /\ TransformReplaces = {2}
    /\ log[2].args[1][1].name = "core/separator"

(***************************************************************************)
(* C5.  When an on-enter transform matches, the same Enter event does not  *)
(* also emit a value update inserting a newline or a separator.            *)
(***************************************************************************)
C5_TransformSuppressesInsertion ==
    (KeyHandled({ENTER}) /\ TransformReplaces # {}) => Count("onChange") = 0

(***************************************************************************)
(* C6.  Enter without Shift in multiline mode, when the caret's line is    *)
(* not empty, or it is empty but onReplace and onSplit are not both there, *)
(* emits one value update that puts one separator at the caret, and makes  *)
(* no block split.                                                         *)
(***************************************************************************)
C6_MultilineSeparator ==
    ( /\ KeyHandled({ENTER})
      /\ ~event.shiftKey
      /\ Truthy(props.multiline)
      /\ ~isEmptyLine(value) \/ ~CanSplit )
        => /\ CallsOf("onChange") = <<Call("onChange", <<CleanedWith(LINE_SEPARATOR)>>)>>
           /\ NoBlockSplit
           /\ Count("onSplitAtEnd") = 0

\* Enter behind "a" with both callbacks there: a separator, no split.
C6_Witness ==
    /\ KeyHandled({ENTER}) /\ ~event.shiftKey
    /\ Truthy(props.multiline) /\ CanSplit
    /\ value.text = <<"a">> /\ value.start = 1 /\ value.end = 1
    /\ Count("onChange") = 1
    /\ CallsOf("onChange")[1].args[1].text = <<"a", LINE_SEPARATOR>>

(***************************************************************************)
(* C7.  Enter without Shift in multiline mode, with onReplace and onSplit  *)
(* there and the caret's line empty, makes a block split and no value      *)
(* update; the units handed to onSplit are the text before and the text    *)
(* behind the caret, which together are the original text, every           *)
(* character exactly once.                                                 *)
(***************************************************************************)
\* The contents handed to onSplit, in the order of the calls.
SplitUnits == [i \in 1..Count("onSplit") |-> CallsOf("onSplit")[i].args[1]]

RECURSIVE Concat(_)
Concat(seqs) == IF seqs = <<>> THEN <<>> ELSE Head(seqs) \o Concat(Tail(seqs))

TextBefore == SubSeq(value.text, 1, value.start)
TextAfter == SubSeq(value.text, value.end + 1, Len(value.text))

C7_MultilineSplitOnEmptyLine ==
    ( /\ KeyHandled({ENTER})
      /\ ~event.shiftKey
      /\ Truthy(props.multiline)
      /\ CanSplit
      /\ isEmptyLine(value) )
        => /\ Count("onChange") = 0
           /\ Cardinality(SplitReplaces) = 1
           /\ Count("onSplit") \in {1, 2}
           /\ SplitUnits[1].text = TextBefore
           /\ Count("onSplit") = 2 => SplitUnits[2].text = TextAfter
           /\ Count("onSplit") = 1 => TextAfter = <<>>
           /\ Concat([i \in 1..Count("onSplit") |-> SplitUnits[i].text]) = value.text
           /\ \A i \in SplitReplaces :
                SelectSeq(log[i].args[1], LAMBDA b : b.src = "onSplit")
                    = [k \in 1..Count("onSplit") |->
                         SplitBlock(CallsOf("onSplit")[k].args[1],
                                    CallsOf("onSplit")[k].args[2])]

\* Enter on the empty last line behind "a": the unit "a LS" and an empty unit.
C7_Witness ==
    /\ KeyHandled({ENTER}) /\ ~event.shiftKey
    /\ Truthy(props.multiline) /\ CanSplit
    /\ value.text = <<"a", LINE_SEPARATOR>> /\ value.start = 2 /\ value.end = 2
    /\ Count("onSplit") = 2
    /\ SplitUnits[1].text = <<"a", LINE_SEPARATOR>>
    /\ SplitUnits[2].text = <<>>
    /\ Cardinality(SplitReplaces) = 1

(***************************************************************************)
(* C8.  On Enter with Shift, in multiline mode or not and whatever         *)
(* callbacks exist, there is no block split, no end-of-unit hook call and  *)
(* no separator: one value update putting a newline in place of the        *)
(* selection when line breaks are allowed, and no value update at all      *)
(* when they are disabled.                                                 *)
(***************************************************************************)
C8_ShiftEnterIsLineBreak ==
    (KeyHandled({ENTER}) /\ event.shiftKey)
        => /\ NoBlockSplit
           /\ Count("onSplitAtEnd") = 0
           /\ CallsOf("onChange") =
                IF props.disableLineBreaks THEN <<>>
                ELSE <<Call("onChange", <<CleanedWith(NEWLINE)>>)>>

\* Shift+Enter with every callback there, outside multiline mode: a newline.
C8_Witness ==
    /\ KeyHandled({ENTER}) /\ event.shiftKey
    /\ CanSplit /\ props.onSplitAtEnd /\ ~Truthy(props.multiline)
    /\ ~props.disableLineBreaks
    /\ value.text = <<"a">> /\ value.start = 1
    /\ Count("onChange") = 1
    /\ CallsOf("onChange")[1].args[1].text = <<"a", NEWLINE>>

(***************************************************************************)
(* C9.  Enter without Shift outside multiline mode takes one of three      *)
(* outcomes.  As claimed: a block split if onReplace and onSplit are       *)
(* there; else a call of the end-of-unit hook and no value update if the   *)
(* hook is there; else a newline unless line breaks are disabled.          *)
(***************************************************************************)
LineBreakOutcome ==
    /\ NoBlockSplit
    /\ Count("onSplitAtEnd") = 0
    /\ CallsOf("onChange") =
         IF props.disableLineBreaks THEN <<>>
         ELSE <<Call("onChange", <<CleanedWith(NEWLINE)>>)>>

SplitOutcome ==
    /\ Cardinality(SplitReplaces) = 1
    /\ Count("onSplit") >= 1
    /\ Count("onChange") = 0
    /\ Count("onSplitAtEnd") = 0

SplitAtEndOutcome ==
    /\ Count("onSplitAtEnd") = 1
    /\ Count("onChange") = 0
    /\ NoBlockSplit

SingleLineEnter ==
    /\ KeyHandled({ENTER})
    /\ ~event.shiftKey
    /\ ~Truthy(props.multiline)

C9_AsClaimed ==
    SingleLineEnter
        => IF CanSplit THEN SplitOutcome
           ELSE IF props.onSplitAtEnd THEN SplitAtEndOutcome
           ELSE LineBreakOutcome

(***************************************************************************)
(* C9, amended.  The end-of-unit hook is called only when it is there and  *)
(* the caret is collapsed at the end of the text; with the hook there but  *)
(* the caret elsewhere (and no split capability) a newline is inserted     *)
(* unless line breaks are disabled.                                        *)
(***************************************************************************)
CaretAtEnd == value.start = value.end /\ value.end = Len(value.text)

C9_SingleLineEnter ==
    SingleLineEnter
        => IF CanSplit THEN SplitOutcome
           ELSE IF props.onSplitAtEnd /\ CaretAtEnd THEN SplitAtEndOutcome
           ELSE LineBreakOutcome

\* The hook is there, the caret is in front of "a": a newline, no hook call.
C9_Witness ==
    /\ SingleLineEnter
    /\ ~CanSplit /\ props.onSplitAtEnd /\ ~props.disableLineBreaks
    /\ value.text = <<"a">> /\ value.start = 0 /\ value.end = 0
    /\ Count("onSplitAtEnd") = 0
    /\ CallsOf("onChange")[1].args[1].text = <<NEWLINE, "a">>

(***************************************************************************)
(* Reading the result of a block split.                                    *)
(***************************************************************************)
\* The blocks the clipboard parser produced for the paste being handled.
PastedBlocks ==
    IF event.type = "paste" /\ event.content.kind = "blocks"
    THEN event.content.blocks ELSE <<>>

\* The replaces made by splitValue (a paste onto an empty value replaces
\* directly, without splitting).
SplitResults ==
    { i \in SplitReplaces : ~(event.type = "paste" /\ Len(value.text) = 0) }

\* What goes between the two units: the pasted blocks, else the middle hook's block.
MiddleContent ==
    IF Len(PastedBlocks) > 0 THEN PastedBlocks
    ELSE IF props.onSplitMiddle THEN <<MiddleBlock>> ELSE <<>>

IsUnit(block, text) == block.src = "onSplit" /\ block.html.text = text

\* blocks = the before unit, the middle content, then at most the after unit.
StartsWithBefore(blocks) ==
    /\ Len(blocks) \in {1 + Len(MiddleContent), 2 + Len(MiddleContent)}
    /\ IsUnit(blocks[1], TextBefore)
    /\ SubSeq(blocks, 2, 1 + Len(MiddleContent)) = MiddleContent
    /\ Len(blocks) = 2 + Len(MiddleContent) => IsUnit(blocks[Len(blocks)], TextAfter)

\* blocks = the middle content, then at most the after unit.
StartsWithMiddle(blocks) ==
    /\ Len(blocks) \in {Len(MiddleContent), 1 + Len(MiddleContent)}
    /\ SubSeq(blocks, 1, Len(MiddleContent)) = MiddleContent
    /\ Len(blocks) = 1 + Len(MiddleContent) => IsUnit(blocks[Len(blocks)], TextAfter)

(***************************************************************************)
(* C10.  As claimed: a block split yields the before unit, then the middle *)
(* content (the middle hook's block or the pasted blocks), then the after  *)
(* unit, where the before unit is left out if it would be empty and there  *)
(* is no pasted content, and is there otherwise.                           *)
(***************************************************************************)
C10_AsClaimed ==
    \A i \in SplitResults :
        IF TextBefore = <<>> /\ Len(PastedBlocks) = 0
        THEN StartsWithMiddle(log[i].args[1])
        ELSE StartsWithBefore(log[i].args[1])

(***************************************************************************)
(* C10, amended.  The before unit is left out if it would be empty and     *)
(* there is pasted content, and is there otherwise (so always on Enter).   *)
(***************************************************************************)
C10_SplitResultOrder ==
    \A i \in SplitResults :
        IF TextBefore = <<>> /\ Len(PastedBlocks) > 0
        THEN StartsWithMiddle(log[i].args[1])
        ELSE StartsWithBefore(log[i].args[1])

\* Two blocks pasted in front of "a": the pasted blocks, then the unit "a".
C10_Witness ==
    /\ event.type = "paste"
    /\ value.text = <<"a">> /\ value.start = 0 /\ value.end = 0
    /\ Len(PastedBlocks) = 2
    /\ \E i \in SplitResults :
        /\ Len(log[i].args[1]) = 3
        /\ log[i].args[1][1] = PastedBlock(1)
        /\ IsUnit(log[i].args[1][3], <<"a">>)

(***************************************************************************)
(* C11.  Every replace made by a block split carries a focus index that is *)
(* a valid index into the blocks it hands over (0 <= index < number of     *)
(* blocks).  With pasted blocks it is the index of the last pasted block   *)
(* and the caret hint is -1 (end of the block); without pasted blocks it   *)
(* is 1 (the second block) and the caret hint is 0 (start of the block).   *)
(***************************************************************************)
C11_FocusIndex ==
    \A i \in SplitResults :
        LET blocks == log[i].args[1]
            indexToSelect == log[i].args[2]
            initialPosition == log[i].args[3]
        IN  /\ 0 <= indexToSelect
            /\ indexToSelect < Len(blocks)
            /\ IF Len(PastedBlocks) > 0
               THEN /\ blocks[indexToSelect + 1] = PastedBlocks[Len(PastedBlocks)]
                    /\ initialPosition = -1
               ELSE /\ indexToSelect = 1
                    /\ initialPosition = 0

\* Two blocks pasted behind "a": before unit, two pasted blocks; focus on the
\* third block, caret at its end.
C11_Witness ==
    /\ event.type = "paste"
    /\ value.text = <<"a">> /\ value.start = 1 /\ value.end = 1
    /\ Len(PastedBlocks) = 2
    /\ \E i \in SplitResults :
        /\ Len(log[i].args[1]) = 3
        /\ log[i].args[2] = 2
        /\ log[i].args[3] = -1

\* Enter in "a" with a middle hook and nothing behind the caret: two blocks,
\* focus on the second, caret at its start.
C11_WitnessEnter ==
    /\ event.type = "keydown"
    /\ \E i \in SplitResults :
        /\ Len(log[i].args[1]) = 2
        /\ log[i].args[2] = 1
        /\ log[i].args[3] = 0

(***************************************************************************)
(* Reading the log of a paste.                                             *)
(***************************************************************************)
IsPaste == event.type = "paste"

InternalPaste == IsPaste /\ event.isInternal
PlainTextPaste == IsPaste /\ ~event.isInternal /\ props.pastePlainText
FilePaste ==
    /\ IsPaste /\ ~event.isInternal /\ ~props.pastePlainText
    /\ event.files > 0 /\ event.html = NoHTML
GeneralPaste ==
    /\ IsPaste /\ ~event.isInternal /\ ~props.pastePlainText
    /\ ~(event.files > 0 /\ event.html = NoHTML)

\* The log is one onChange whose value is the old one with the selection
\* replaced by text, carrying the format stacks given, caret behind it.
OneChangeInserting(text, formats) ==
    /\ Len(log) = 1
    /\ log[1].op = "onChange"
    /\ log[1].args[1].text = TextBefore \o text \o TextAfter
    /\ SubSeq(log[1].args[1].formats, value.start + 1, value.start + Len(text)) = formats
    /\ log[1].args[1].start = value.start + Len(text)
    /\ log[1].args[1].end = value.start + Len(text)

(***************************************************************************)
(* C12.  A paste is classified by the first rule that applies: internal,   *)
(* plain-text-only mode, files without markup, general.  An internal paste *)
(* makes exactly one value update inserting the parsed markup with the     *)
(* active formats applied, even in plain-text-only mode or with files, and *)
(* never asks the clipboard parser, replaces or splits.  A paste in        *)
(* plain-text-only mode that is not internal makes exactly one value       *)
(* update inserting the unformatted plain text, even with files.  Only the *)
(* other two kinds ask the parser: for the files, resp. for the markup.    *)
(***************************************************************************)
C12_PasteClassification ==
    /\ InternalPaste =>
        OneChangeInserting(event.html.text,
            [i \in 1..Len(event.html.text) |-> event.activeFormats \o event.html.formats[i]])
    /\ PlainTextPaste =>
        OneChangeInserting(event.plainText, NoFormats(Len(event.plainText)))
    /\ FilePaste =>
        /\ Count("pasteHandler") = 1
        /\ log[1] = Call("pasteHandler", <<"files", "BLOCKS">>)
    /\ GeneralPaste =>
        /\ Count("pasteHandler") = 1
        /\ log[1].op = "pasteHandler"
        /\ log[1].args[1] = "html"

\* An internal paste of italic markup with bold active, in plain-text-only
\* mode and with a file on the clipboard: one update, bold outermost.
C12_Witness ==
    /\ InternalPaste
    /\ props.pastePlainText
    /\ event.files > 0
    /\ event.html.text = <<"a">>
    /\ event.activeFormats = <<BOLD>>
    /\ value.text = <<"a">> /\ value.start = 1 /\ value.end = 1
    /\ log = <<Call("onChange",
                    <<Val(<<"a", "a">>, <<<<>>, <<BOLD, ITALIC>>>>, 2, 2)>>)>>

\* A plain-text-only paste with a file and no markup on the clipboard.
C12_WitnessPlainText ==
    /\ PlainTextPaste
    /\ event.files > 0 /\ event.html = NoHTML
    /\ event.plainText = <<"[", "a", "]">>
    /\ Len(log) = 1 /\ log[1].op = "onChange"
    /\ log[1].args[1].text = TextBefore \o <<"[", "a", "]">> \o TextAfter

\* The mode the clipboard parser was asked to work in.
ModeAsked == log[1].args[2]

ShortcodeOnEmpty == Len(value.text) = 0 /\ isShortcode(event.plainText)

URLOnEmpty ==
    props.embedURLOnPaste /\ Len(value.text) = 0 /\ isURL(Trim(event.plainText))

(***************************************************************************)
(* C13.  As claimed: for a general paste the parse mode is BLOCKS when the *)
(* value is empty and the plain text is a shortcode, or URL embedding is   *)
(* on, the value is empty and the trimmed plain text is a URL; otherwise   *)
(* it is AUTO if both onReplace and onSplit exist, else INLINE.            *)
(***************************************************************************)
C13_AsClaimed ==
    GeneralPaste =>
        ModeAsked = IF ShortcodeOnEmpty \/ URLOnEmpty THEN "BLOCKS"
                    ELSE IF CanSplit THEN "AUTO" ELSE "INLINE"

(***************************************************************************)
(* C13, amended.  A shortcode on an empty value forces BLOCKS only when    *)
(* both onReplace and onSplit exist (the mode was AUTO); a URL on an empty *)
(* value with URL embedding on forces BLOCKS in either case.  Otherwise    *)
(* the mode is AUTO if both onReplace and onSplit exist, else INLINE.      *)
(***************************************************************************)
C13_ParseMode ==
    GeneralPaste =>
        ModeAsked = IF (CanSplit /\ ShortcodeOnEmpty) \/ URLOnEmpty THEN "BLOCKS"
                    ELSE IF CanSplit THEN "AUTO" ELSE "INLINE"

\* A URL inside white space pasted into an empty value that cannot be split,
\* URL embedding on: BLOCKS.
C13_Witness ==
    /\ GeneralPaste
    /\ ~CanSplit
    /\ URLOnEmpty
    /\ ~isURL(event.plainText)
    /\ ModeAsked = "BLOCKS"

\* A shortcode pasted into an empty value: BLOCKS with both callbacks, INLINE
\* without.
C13_WitnessShortcode ==
    /\ GeneralPaste
    /\ CanSplit
    /\ ShortcodeOnEmpty /\ ~URLOnEmpty
    /\ ModeAsked = "BLOCKS"

C13_WitnessInline ==
    /\ GeneralPaste
    /\ ~CanSplit
    /\ ShortcodeOnEmpty /\ ~URLOnEmpty
    /\ ModeAsked = "INLINE"

\* Blocks handed back by the clipboard parser of a general paste.
GeneralBlocks ==
    IF GeneralPaste /\ event.content.kind = "blocks" THEN event.content.blocks ELSE <<>>

(***************************************************************************)
(* C14.  When the clipboard parser of a general paste returns a non-empty  *)
(* list of blocks: if the value is empty and onReplace exists, exactly one *)
(* replace is made, with exactly those blocks, the index of the last block *)
(* and caret hint -1, and nothing else; otherwise splitValue runs with the *)
(* blocks as pasted content, so that without onReplace or onSplit nothing  *)
(* is emitted and with both one replace carries the pasted blocks between  *)
(* the units for what is before and after the caret.  In neither case is a *)
(* value update made.                                                      *)
(***************************************************************************)
C14_BlocksFromParser ==
    Len(GeneralBlocks) > 0 =>
        /\ Count("onChange") = 0
        /\ IF Len(value.text) = 0 /\ props.onReplace
           THEN Tail(log) =
                  <<Call("onReplace", <<GeneralBlocks, Len(GeneralBlocks) - 1, -1>>)>>
           ELSE IF ~CanSplit THEN Tail(log) = <<>>
           ELSE /\ Count("onReplace") = 1
                /\ log[Len(log)].op = "onReplace"
                /\ Len(log[Len(log)].args) = 3
                /\ LET blocks == log[Len(log)].args[1]
                   IN  IF TextBefore = <<>>
                       THEN StartsWithMiddle(blocks)
                       ELSE StartsWithBefore(blocks)

\* Two blocks pasted over an empty value with onReplace but no onSplit (the
\* URL of an embed): one replace, focus on the second block.
C14_Witness ==
    /\ Len(GeneralBlocks) = 2
    /\ Len(value.text) = 0
    /\ props.onReplace /\ ~props.onSplit
    /\ Tail(log) = <<Call("onReplace", <<GeneralBlocks, 1, -1>>)>>

\* Two blocks pasted into the middle of "aa": a split around them.
C14_WitnessSplit ==
    /\ Len(GeneralBlocks) = 2
    /\ value.text = <<"a", "a">> /\ value.start = 1 /\ value.end = 1
    /\ Count("onSplit") = 2
    /\ Len(log[Len(log)].args[1]) = 4

\* Inline markup handed back by the clipboard parser of a general paste.
InlinePaste == GeneralPaste /\ event.content.kind = "string"

HasMultilineTag == props.multiline \in {"true", "p", "li"}

\* The positions of a text that do not continue a run of newlines.
RunHeads(text) ==
    { i \in 1..Len(text) : text[i] # NEWLINE \/ i = 1 \/ text[i - 1] # NEWLINE }

\* The n-th smallest member of a set of numbers.
Nth(S, n) == CHOOSE i \in S : Cardinality({ j \in S : j < i }) = n - 1

\* The text with every run of newlines turned into one separator.
RunsAsSeparators(text) ==
    [n \in 1..Cardinality(RunHeads(text)) |->
        IF text[Nth(RunHeads(text), n)] = NEWLINE THEN LINE_SEPARATOR
        ELSE text[Nth(RunHeads(text), n)]]

\* The stacks of the positions that are kept, under the active formats.
StacksOfRunHeads(frag, activeFormats) ==
    [n \in 1..Cardinality(RunHeads(frag.text)) |->
        activeFormats \o frag.formats[Nth(RunHeads(frag.text), n)]]

\* Call i of the log is an onChange whose value is the old one with the
\* selection replaced by text, carrying the format stacks given.
InsertsAt(i, text, formats) ==
    /\ log[i].op = "onChange"
    /\ log[i].args[1].text = TextBefore \o text \o TextAfter
    /\ SubSeq(log[i].args[1].formats, value.start + 1, value.start + Len(text)) = formats

(***************************************************************************)
(* C15.  When the clipboard parser of a general paste returns inline       *)
(* markup, exactly one value update is made and nothing is replaced or     *)
(* split.  With a multiline tag every run of newlines of the markup is     *)
(* inserted as one separator, so no newline is inserted; without one the   *)
(* markup is inserted with its newlines.  Either way every inserted        *)
(* position carries the active formats in front of its own.                *)
(***************************************************************************)
C15_InlineFromParser ==
    InlinePaste =>
        /\ Len(log) = 2
        /\ IF HasMultilineTag
           THEN /\ InsertsAt(2, RunsAsSeparators(event.content.html.text),
                             StacksOfRunHeads(event.content.html, event.activeFormats))
                /\ \A k \in (value.start + 1)..(log[2].args[1].start) :
                        log[2].args[1].text[k] # NEWLINE
           ELSE InsertsAt(2, event.content.html.text,
                    [k \in 1..Len(event.content.html.text) |->
                        event.activeFormats \o event.content.html.formats[k]])

\* "a", two newlines, "a" pasted with bold active into a list: three
\* characters inserted, the separator takes the stack of the first newline.
C15_Witness ==
    /\ InlinePaste
    /\ props.multiline = "li"
    /\ event.content.html.text = <<"a", NEWLINE, NEWLINE, "a">>
    /\ event.activeFormats = <<BOLD>>
    /\ Len(value.text) = 0
    /\ log[2] = Call("onChange",
                     <<Val(<<"a", LINE_SEPARATOR, "a">>,
                           <<<<BOLD>>, <<BOLD, ITALIC>>, <<BOLD>>>>, 3, 3)>>)

\* The same paste where multiline is set to something that has no tag.
C15_WitnessNoTag ==
    /\ InlinePaste
    /\ props.multiline = "div"
    /\ event.content.html.text = <<"a", NEWLINE, NEWLINE, "a">>
    /\ Len(value.text) = 0
    /\ log[2].op = "onChange"
    /\ log[2].args[1].text = <<"a", NEWLINE, NEWLINE, "a">>

\* The clipboard parser was asked for blocks and handed back none.
NoBlocksParsed == IsPaste /\ event.content.kind = "blocks" /\ Len(event.content.blocks) = 0

(***************************************************************************)
(* C18.  A paste whose parsed result is an empty list of blocks does       *)
(* nothing, on the path for files as on the general path: no value update, *)
(* no replace and no block split.                                          *)
(***************************************************************************)
C18_EmptyBlocksIsNoOp ==
    NoBlocksParsed =>
        /\ Count("onChange") = 0
        /\ Count("onReplace") = 0
        /\ Count("onSplit") = 0
        /\ Count("onSplitMiddle") = 0

\* The part of C18 that holds: the general path checks the length.
C18_GeneralPathOnly ==
    (NoBlocksParsed /\ GeneralPaste) => Len(log) = 1

\* A file for which the parser has no block, pasted over an empty value: the
\* block is replaced by nothing.
C18_ReplacedByNothing ==
    /\ NoBlocksParsed /\ FilePaste
    /\ Len(value.text) = 0
    /\ Tail(log) = <<Call("onReplace", <<<<>>>>)>>

\* The same file pasted into "a": the block is split as on Enter.
C18_SplitAsOnEnter ==
    /\ NoBlocksParsed /\ FilePaste
    /\ value.text = <<"a">> /\ value.start = 1 /\ value.end = 1
    /\ Count("onSplit") = 2
    /\ log[Len(log)].op = "onReplace"
    /\ Len(log[Len(log)].args[1]) = 2
    /\ log[Len(log)].args[2] = 1

\* The prefix transforms whose prefix is the trimmed text in front of the
\* selection's start, as positions of the registry.
MatchingPrefixTransforms ==
    { i \in 1..Len(BlockTransforms) :
        /\ BlockTransforms[i].type = "prefix"
        /\ BlockTransforms[i].prefix = Trim(SubSeq(value.text, 1, value.start)) }

TextAfterStart == SubSeq(value.text, value.start + 1, Len(value.text))

SpaceBeforeCaret == value.start >= 1 /\ value.text[value.start] = SPACE

(***************************************************************************)
(* C16.  The input rule fires iff onReplace exists, the character right    *)
(* before the caret (the start of the selection) is a space and the        *)
(* trimmed text from offset 0 to the caret is the prefix of a registered   *)
(* prefix transform.  When it fires it makes exactly one replace with the  *)
(* single block the first such transform builds from the content between   *)
(* the caret and the end of the text, and then marks the change as         *)
(* automatic.  In every other case it makes no call.                       *)
(***************************************************************************)
C16_InputRule ==
    event.type = "input" =>
        IF props.onReplace /\ SpaceBeforeCaret /\ MatchingPrefixTransforms # {}
        THEN /\ Len(log) = 2
             /\ log[1].op = "onReplace"
             /\ Len(log[1].args) = 1
             /\ Len(log[1].args[1]) = 1
             /\ log[1].args[1][1].src = "transform"
             /\ log[1].args[1][1].name = BlockTransforms[FirstOf(MatchingPrefixTransforms)].blockName
             /\ log[1].args[1][1].content.text = TextAfterStart
             /\ log[1].args[1][1].content.formats
                    = SubSeq(value.formats, value.start + 1, Len(value.formats))
             /\ log[2] = Call("__unstableMarkAutomaticChange", <<>>)
        ELSE log = <<>>

\* "a", space and a selected italic "b": the list transform (registered
\* first of the two with that prefix) gets the content from the start of the
\* selection to the end of the text, formats included.
C16_Witness ==
    /\ event.type = "input"
    /\ props.onReplace
    /\ value = Val(<<"a", SPACE, "b">>, <<<<>>, <<>>, <<ITALIC>>>>, 2, 3)
    /\ Len(log) = 2
    /\ log[1].op = "onReplace"
    /\ log[1].args[1][1].name = "core/list"
    /\ log[1].args[1][1].content.text = <<"b">>
    /\ log[1].args[1][1].content.formats = <<<<ITALIC>>>>
    /\ log[2].op = "__unstableMarkAutomaticChange"

\* Newline, "a", space, caret: the white space in front of the prefix is
\* trimmed away and the rule fires.
C16_WitnessTrimmed ==
    /\ event.type = "input"
    /\ props.onReplace
    /\ value.text = <<NEWLINE, "a", SPACE>> /\ value.start = 3
    /\ Len(log) = 2
    /\ log[1].args[1][1].name = "core/list"
    /\ log[1].args[1][1].content.text = <<>>

\* "aa", space, caret: the transform with just that prefix, not the ones
\* whose prefix it starts with.
C16_WitnessLongerPrefix ==
    /\ event.type = "input"
    /\ props.onReplace
    /\ value.text = <<"a", "a", SPACE>> /\ value.start = 3
    /\ Len(log) = 2
    /\ log[1].args[1][1].name = "core/heading"

\* "ab", space, caret, and "b", space, caret: typed prefixes no transform
\* has, nothing happens.
C16_WitnessNoSuchPrefix ==
    /\ event.type = "input"
    /\ props.onReplace
    /\ value.text = <<"a", "b", SPACE>> /\ value.start = 3
    /\ log = <<>>

C16_WitnessOtherLetter ==
    /\ event.type = "input"
    /\ props.onReplace
    /\ value.text = <<"b", SPACE, "a">> /\ value.start = 2
    /\ log = <<>>

\* "a", newline, caret: other white space, nothing happens.
C16_WitnessNewline ==
    /\ event.type = "input"
    /\ props.onReplace
    /\ value.text = <<"a", NEWLINE>> /\ value.start = 2
    /\ log = <<>>

\* "a", space, "b" with the caret behind the "b": the space is not right
\* before the caret, nothing happens.
C16_WitnessSpaceEarlier ==
    /\ event.type = "input"
    /\ props.onReplace
    /\ value.text = <<"a", SPACE, "b">> /\ value.start = 3
    /\ log = <<>>

FormatsAdded == event.type = "addActiveFormats"

\* The value is the one before with the active formats in front of every stack.
PrependedOnce ==
    /\ value.text = event.value.text
    /\ Len(value.formats) = Len(event.value.formats)
    /\ \A i \in 1..Len(value.formats) :
            value.formats[i] = event.activeFormats \o event.value.formats[i]
    /\ value.start = event.value.start
    /\ value.end = event.value.end
    /\ event.activeFormats = <<>> => value = event.value

\* A second application with the same active formats, right after the first:
\* the stacks are those before the first with the active formats twice in front.
PrependedTwice ==
    ( /\ FormatsAdded
      /\ event'.type = "addActiveFormats"
      /\ event'.activeFormats = event.activeFormats )
    => /\ value'.text = event.value.text
       /\ \A i \in 1..Len(value'.formats) :
            value'.formats[i]
                = event.activeFormats \o event.activeFormats \o event.value.formats[i]

(***************************************************************************)
(* C17.  addActiveFormats( value, activeFormats ) makes the format stack   *)
(* at every position the active formats followed by the stack that was     *)
(* there, and leaves the number of positions, the text and the selection   *)
(* alone; with no active formats the value is untouched; applied twice     *)
(* with the same active formats, they are in front twice.                  *)
(***************************************************************************)
C17_AddActiveFormats ==
    /\ [](FormatsAdded => PrependedOnce)
    /\ [][PrependedTwice]_vars

\* Bold applied twice to a plain and an italic character.
C17_Witness ==
    /\ FormatsAdded
    /\ event.activeFormats = <<BOLD>>
    /\ event.value.formats = <<<<BOLD>>, <<BOLD, ITALIC>>>>
    /\ value.formats = <<<<BOLD, BOLD>>, <<BOLD, BOLD, ITALIC>>>>

\* splitValue was called for a paste: with the blocks of a file paste, or with
\* the blocks (at least one) of a general paste, unless the pasted blocks
\* replace an empty value directly.
PasteCallsSplitValue ==
    /\ IsPaste
    /\ event.content.kind = "blocks"
    /\ FilePaste \/ Len(event.content.blocks) > 0
    /\ ~(props.onReplace /\ Len(value.text) = 0)

\* splitValue was called for Enter (the caller checks for both callbacks
\* itself): in a multiline value on an empty line, else wherever the caret is.
EnterCallsSplitValue ==
    /\ KeyHandled({ENTER})
    /\ ~event.shiftKey
    /\ CanSplit
    /\ Truthy(props.multiline) => isEmptyLine(value)

SplitHookCalls == At("onSplit") \cup At("onSplitMiddle")

(***************************************************************************)
(* C19.  splitValue emits nothing, neither a replace nor a call of onSplit *)
(* or onSplitMiddle, unless both onReplace and onSplit exist; when both    *)
(* exist, each invocation makes exactly one replace, after all calls of    *)
(* onSplit and onSplitMiddle.  So blocks pasted onto a non-empty value     *)
(* that cannot be split change nothing.                                    *)
(***************************************************************************)
C19_SplitNeedsBothCallbacks ==
    /\ (SplitHookCalls # {} \/ SplitResults # {}) => CanSplit
    /\ ((PasteCallsSplitValue \/ EnterCallsSplitValue) /\ CanSplit) =>
            /\ Cardinality(SplitReplaces) = 1
            /\ Len(log) \in SplitReplaces
            /\ \A i \in SplitHookCalls : i < Len(log)
    /\ (PasteCallsSplitValue /\ ~CanSplit) => Len(log) = 1
    /\ (IsPaste /\ Len(PastedBlocks) > 0 /\ Len(value.text) > 0 /\ ~CanSplit) =>
            /\ Count("onChange") = 0
            /\ Count("onReplace") = 0
            /\ SplitHookCalls = {}

\* A block pasted into "a" with onReplace but without onSplit: only the
\* clipboard parser was called.
C19_Witness ==
    /\ IsPaste
    /\ Len(PastedBlocks) = 1
    /\ value.text = <<"a">>
    /\ props.onReplace /\ ~props.onSplit
    /\ log = <<Call("pasteHandler", <<"files", "BLOCKS">>)>>

\* A block pasted into the middle of "aa" with both callbacks: two calls of
\* onSplit, then the one replace.
C19_WitnessSplit ==
    /\ PasteCallsSplitValue /\ CanSplit
    /\ Len(PastedBlocks) = 1
    /\ value.text = <<"a", "a">> /\ value.start = 1 /\ value.end = 1
    /\ Len(log) = 4
    /\ SplitHookCalls = {2, 3}
    /\ SplitReplaces = {4}

\* The flags handed to onSplit, in the order of the calls.
OriginalFlags == [i \in 1..Count("onSplit") |-> CallsOf("onSplit")[i].args[2]]

\* Is a unit made for the content before the caret?  (Else every unit made
\* is for the content behind it.)
BeforeProduced == Count("onSplit") > 0 /\ ~(TextBefore = <<>> /\ Len(PastedBlocks) > 0)

AfterProduced == Count("onSplit") = (IF BeforeProduced THEN 2 ELSE 1)

AfterIsOriginal == TextBefore = <<>> /\ TextAfter # <<>>

\* The units among the blocks handed over, in order.
UnitsOf(blocks) == SelectSeq(blocks, LAMBDA b : b.src = "onSplit")

(***************************************************************************)
(* C20.  In every block split the content behind the caret is the          *)
(* original iff the content before it is empty and the content behind it   *)
(* is not, and of the units made for the two exactly one is flagged as the *)
(* original whenever at least one is made: of two exactly one, a lone      *)
(* before unit is flagged, a lone after unit is flagged.                   *)
(***************************************************************************)
C20_OneOriginal ==
    \A i \in SplitResults :
        /\ Count("onSplit") <= 2
        /\ Count("onSplit") > 0 =>
                Cardinality({ k \in 1..Count("onSplit") : OriginalFlags[k] }) = 1
        /\ BeforeProduced => OriginalFlags[1] = ~AfterIsOriginal
        /\ AfterProduced => OriginalFlags[Count("onSplit")] = AfterIsOriginal
        /\ (BeforeProduced /\ ~AfterProduced) => OriginalFlags[1]
        /\ (~BeforeProduced /\ AfterProduced) => OriginalFlags[1]
        /\ Len(UnitsOf(log[i].args[1])) = Count("onSplit")
        /\ \A k \in 1..Count("onSplit") :
                UnitsOf(log[i].args[1])[k].isOriginal = OriginalFlags[k]

\* Enter at the start of "a": the unit behind the caret is the original.
C20_Witness ==
    /\ event.type = "keydown"
    /\ value.text = <<"a">> /\ value.start = 0 /\ value.end = 0
    /\ SplitResults # {}
    /\ OriginalFlags = <<FALSE, TRUE>>

\* A block pasted in front of "a": only the after unit is made, and flagged.
C20_WitnessLoneAfter ==
    /\ IsPaste /\ Len(PastedBlocks) = 1
    /\ value.text = <<"a">> /\ value.start = 0 /\ value.end = 0
    /\ SplitResults # {}
    /\ OriginalFlags = <<TRUE>>

\* Enter at the end of "a" with a middle hook: only the before unit is made,
\* and flagged.
C20_WitnessLoneBefore ==
    /\ event.type = "keydown"
    /\ props.onSplitMiddle
    /\ value.text = <<"a">> /\ value.start = 1 /\ value.end = 1
    /\ SplitResults # {}
    /\ OriginalFlags = <<TRUE>>

\* Should the unit for the content behind the caret be among the blocks?
AfterExpected ==
    IF Len(PastedBlocks) > 0 THEN TextAfter # <<>>
    ELSE ~props.onSplitMiddle \/ TextAfter # <<>>

\* Is the unit for the content before the caret among the blocks?
BeforeExpected == ~(TextBefore = <<>> /\ Len(PastedBlocks) > 0)

(***************************************************************************)
(* C21.  In the blocks of a block split the after unit is there, with      *)
(* pasted blocks, iff the content behind the caret is not empty, and       *)
(* without pasted blocks, iff there is no middle hook or that content is   *)
(* not empty.  So a split on Enter hands over 2 or 3 blocks, the before    *)
(* unit first even when it is empty, and with a middle hook and nothing    *)
(* behind the caret it hands over exactly the before unit and the middle   *)
(* block.                                                                  *)
(***************************************************************************)
C21_AfterUnit ==
    \A i \in SplitResults :
        LET blocks == log[i].args[1]
            front == (IF BeforeExpected THEN 1 ELSE 0) + Len(MiddleContent)
        IN  /\ Len(blocks) = front + (IF AfterExpected THEN 1 ELSE 0)
            /\ BeforeExpected => IsUnit(blocks[1], TextBefore)
            /\ SubSeq(blocks, front - Len(MiddleContent) + 1, front) = MiddleContent
            /\ AfterExpected => IsUnit(blocks[Len(blocks)], TextAfter)
            /\ event.type = "keydown" =>
                /\ Len(blocks) \in {2, 3}
                /\ IsUnit(blocks[1], TextBefore)
                /\ (props.onSplitMiddle /\ TextAfter = <<>>) =>
                        /\ Len(blocks) = 2
                        /\ blocks[2] = MiddleBlock

\* Enter at the end of "a" with a middle hook: the before unit "a" and the
\* middle block, no after unit.
C21_Witness ==
    /\ event.type = "keydown"
    /\ props.onSplitMiddle
    /\ value.text = <<"a">> /\ value.start = 1 /\ value.end = 1
    /\ \E i \in SplitResults :
        /\ Len(log[i].args[1]) = 2
        /\ IsUnit(log[i].args[1][1], <<"a">>)
        /\ log[i].args[1][2] = MiddleBlock

\* Enter in an empty value without a middle hook: two empty units.
C21_WitnessEmpty ==
    /\ event.type = "keydown"
    /\ ~props.onSplitMiddle
    /\ Len(value.text) = 0
    /\ \E i \in SplitResults :
        /\ Len(log[i].args[1]) = 2
        /\ IsUnit(log[i].args[1][1], <<>>)
        /\ IsUnit(log[i].args[1][2], <<>>)

\* A block pasted behind "a": the before unit and the pasted block, no after
\* unit although there is no middle block.
C21_WitnessPasted ==
    /\ IsPaste /\ Len(PastedBlocks) = 1
    /\ value.text = <<"a">> /\ value.start = 1 /\ value.end = 1
    /\ \E i \in SplitResults :
        /\ Len(log[i].args[1]) = 2
        /\ log[i].args[1][2] = PastedBlock(1)

\* The calls made after the autocomplete's handler returned.
AfterFirstCall == Tail(log)

(***************************************************************************)
(* C22.  For a keydown event the autocomplete's handler is called first,   *)
(* with the event, and the key handler after it.  If the event is          *)
(* default-prevented by then, the key handler makes no call at all.        *)
(* Otherwise it calls preventDefault on every Enter, on a Backspace or     *)
(* Delete exactly when the selection is collapsed, no formats are active   *)
(* and the caret is at the key's boundary (whether or not onMerge or       *)
(* onRemove exist), and for any other key it makes no call at all.         *)
(***************************************************************************)
C22_KeyInterception ==
    event.type = "keydown" =>
        /\ Len(log) >= 1
        /\ log[1].op = "onKeyDown"
        /\ Count("onKeyDown") = 1
        /\ log[1].args[1].keyCode = event.keyCode
        /\ log[1].args[1].defaultPrevented => event.defaultPrevented
        /\ Count("preventDefault") <= 1
        /\ event.defaultPrevented => AfterFirstCall = <<>>
        /\ (~event.defaultPrevented /\ event.keyCode = ENTER) =>
                Count("preventDefault") = 1
        /\ (~event.defaultPrevented /\ event.keyCode \in {BACKSPACE, DELETE}) =>
                (Count("preventDefault") = 1 <=> BoundaryCondition)
        /\ event.keyCode \notin {ENTER, BACKSPACE, DELETE} => AfterFirstCall = <<>>

\* Enter that the autocomplete took (it prevented the default): the key
\* handler does nothing although the value could be split.
C22_Witness ==
    /\ event.type = "keydown"
    /\ event.keyCode = ENTER
    /\ event.defaultPrevented
    /\ ~log[1].args[1].defaultPrevented
    /\ CanSplit
    /\ Len(log) = 1

\* Backspace at the start of "a" without onMerge and onRemove: intercepted.
C22_WitnessNoCallbacks ==
    /\ KeyHandled({BACKSPACE})
    /\ ~props.onMerge /\ ~props.onRemove
    /\ value.text = <<"a">> /\ value.start = 0 /\ value.end = 0
    /\ ~hasActiveFormats
    /\ AfterFirstCall = <<Call("preventDefault", <<>>)>>

EffectRan == event.type = "effect"

(***************************************************************************)
(* C23.  Whenever the effect on hasActiveFormats has run, on mount or      *)
(* after any change of hasActiveFormats, the store's flag for the caret    *)
(* being within formatted text equals hasActiveFormats.  The effect        *)
(* dispatches at most one action: enterFormattedText only with active      *)
(* formats and the flag not set when it ran, exitFormattedText only        *)
(* without active formats and the flag set; so it never dispatches an      *)
(* enter or exit that changes nothing.                                     *)
(***************************************************************************)
C23_EffectSyncsFlag ==
    EffectRan =>
        /\ isCaretWithinFormattedText = hasActiveFormats
        /\ Len(log) <= 1
        /\ \A i \in 1..Len(log) : log[i].op \in {"enterFormattedText", "exitFormattedText"}
        /\ Count("enterFormattedText") > 0 => (hasActiveFormats /\ ~event.within)
        /\ Count("exitFormattedText") > 0 => (~hasActiveFormats /\ event.within)
        /\ event.within # hasActiveFormats => Len(log) = 1

\* Active formats appear while the flag is already set (another rich text
\* set it): the effect dispatches nothing.
C23_Witness ==
    /\ EffectRan
    /\ hasActiveFormats
    /\ event.within
    /\ isCaretWithinFormattedText
    /\ log = <<>>

\* Active formats go away while the flag is set: the effect exits.
C23_WitnessExit ==
    /\ EffectRan
    /\ ~hasActiveFormats
    /\ event.within
    /\ ~isCaretWithinFormattedText
    /\ log = <<Call("exitFormattedText", <<>>)>>

====
